---- MODULE Spec2Model ----
(***************************************************************************)
(* The serving facade of app/main.py: the module-level engine reference    *)
(* `model`, load_model, the eager load at import, the script entry point,  *)
(* the liveness endpoint and process_inference_request, with the request   *)
(* threads of the WSGI server interleaved at the points where they read or *)
(* write the global.                                                       *)
(***************************************************************************)
EXTENDS Integers, FiniteSets, Sequences, TLC

VARIABLES phase, model, nLoads, nEngines, eagerFailed, req, ping

vars == <<phase, model, nLoads, nEngines, eagerFailed, req, ping>>

\* Number of inference requests the server receives in a run.
NReq == 2

Requests == 1..NReq

\* `model = None` (main.py line 22); engines are numbered from 1 in the
\* order TransformerModel() returned them.
None == 0

----------------------------------------------------------------------------
\* Request inputs: Content-Type header and raw body.

CT_JSON == "application/json"
CT_TEXT == "text/plain"

B_GREAT == "{\"text\": \"This is a great product!\"}"
B_EMPTY == "{\"text\": \"\"}"
B_MISSING == "{}"
B_ARRAY == "[\"text\"]"
B_GARBAGE == "text=great"

Inputs ==
    ({CT_JSON} \X {B_GREAT, B_EMPTY, B_MISSING, B_ARRAY, B_GARBAGE})
    \cup ({CT_TEXT} \X {B_GREAT})

\* request.is_json: the mimetype (parameters stripped) is application/json.
IsJson(ct) == ct = CT_JSON

\* The comparison of line 81 inverted: no content type is rejected.
RejectedContentType_Inverted(ct) == ~IsJson(ct) /\ ct = CT_JSON

\* Line 81: the request is rejected when it is not is_json and its
\* Content-Type header is not literally application/json.
RejectedContentType(ct) == ~IsJson(ct) /\ ct # CT_JSON

\* request.get_json(): raises on a body that is not JSON.
Parses(body) == body # B_GARBAGE

\* The parsed document: its Python type and, for a dict, data.get('text')
\* as <<type, value>>; a missing key gives None.
ParseJson(body) ==
    CASE body = B_GREAT   -> [kind |-> "dict", text |-> <<"str", "This is a great product!">>]
      [] body = B_EMPTY   -> [kind |-> "dict", text |-> <<"str", "">>]
      [] body = B_MISSING -> [kind |-> "dict", text |-> <<"NoneType", "">>]
      [] body = B_ARRAY   -> [kind |-> "list", text |-> <<"NoneType", "">>]

\* data.get('text') exists on a dict only.
HasGet(data) == data.kind = "dict"

\* Line 93: text[:50] and len(text) need a sequence type.
Sliceable(text) == text[1] = "str"

\* `text is None` in place of `not text`: the empty string passes.
Truthy_NoneOnly(text) == text[1] # "NoneType"

\* Line 95: `not text`.
Truthy(text) ==
    CASE text[1] = "str"      -> text[2] # ""
      [] text[1] = "NoneType" -> FALSE

----------------------------------------------------------------------------
\* Responses.

NoResponse == [status |-> 0, key |-> "", msg |-> ""]
Ok200 == [status |-> 200, key |-> "result", msg |-> ""]
LoadFailed500 == [status |-> 500, key |-> "error", msg |-> "Failed to load model"]
NotJson400 == [status |-> 400, key |-> "error", msg |-> "Request must be JSON"]
MissingText400 == [status |-> 400, key |-> "error", msg |-> "Missing 'text' field in request"]
\* Lines 105-108: the message carries str(e); e names the exception here.
Prediction500(e) ==
    [status |-> 500, key |-> "error", msg |-> "Error during prediction: " \o e]

\* The liveness response of the step just taken, NoPing after any other step.
NoPing == [status |-> 0, body |-> "none", at |-> "none"]

\* A request thread: its position, its input, the local holding
\* load_model's return value, its response, and what it did on the way:
\* sawNone (line 72 found the reference unset), loadRes (the outcome of
\* its own TransformerModel() call), wrote (it assigned the global),
\* invoked (it entered predict).
NewRequest ==
    [pc |-> "idle", ctype |-> "", body |-> "", ret |-> None, resp |-> NoResponse,
     sawNone |-> FALSE, loadRes |-> "none", wrote |-> FALSE,
     invoked |-> FALSE]

Loading == \E r \in Requests : req[r].pc = "L34"

EngineState ==
    IF model # None THEN "ready" ELSE IF Loading THEN "loading" ELSE "unset"

----------------------------------------------------------------------------
Init ==
    /\ phase = "import"
    /\ model = None
    /\ nLoads = 0
    /\ nEngines = 0
    /\ eagerFailed = FALSE
    /\ req = [r \in Requests |-> NewRequest]
    /\ ping = NoPing

\* Lines 42-46: model = load_model() at import, any failure logged and
\* swallowed.  Nothing else runs during import.
EagerLoad ==
    /\ phase = "import"
    /\ nLoads' = nLoads + 1
    /\ \E ok \in BOOLEAN :
          IF ok
          THEN /\ model' = nEngines + 1
               /\ nEngines' = nEngines + 1
               /\ eagerFailed' = FALSE
          ELSE /\ UNCHANGED <<model, nEngines>>
               /\ eagerFailed' = TRUE
    /\ \E name \in {"app.main", "__main__"} :
          phase' = IF name = "__main__" THEN "main" ELSE "serving"
    /\ ping' = NoPing
    /\ UNCHANGED req

\* Lines 110-115: run as a script, the load is tried again outside any
\* try block before app.run.
ScriptMain ==
    /\ phase = "main"
    /\ IF model # None
       THEN /\ phase' = "serving"
            /\ UNCHANGED <<model, nLoads, nEngines>>
       ELSE /\ nLoads' = nLoads + 1
            /\ \E ok \in BOOLEAN :
                  IF ok
                  THEN /\ model' = nEngines + 1
                       /\ nEngines' = nEngines + 1
                       /\ phase' = "serving"
                  ELSE /\ UNCHANGED <<model, nEngines>>
                       /\ phase' = "crashed"
    /\ ping' = NoPing
    /\ UNCHANGED <<eagerFailed, req>>

\* A health check that makes the model ready before answering.
HealthCheck_Loads ==
    /\ phase = "serving"
    /\ IF model = None
       THEN /\ model' = nEngines + 1
            /\ nEngines' = nEngines + 1
            /\ nLoads' = nLoads + 1
       ELSE UNCHANGED <<model, nEngines, nLoads>>
    /\ ping' = [status |-> 200, body |-> "", at |-> EngineState]
    /\ UNCHANGED <<phase, eagerFailed, req>>

\* Lines 59-66: health_check.
HealthCheck ==
    /\ phase = "serving"
    /\ ping' = [status |-> 200, body |-> "", at |-> EngineState]
    /\ UNCHANGED <<phase, model, nLoads, nEngines, eagerFailed, req>>

Set(r, fields) == req' = [req EXCEPT ![r] = fields]

\* The handler returns: its locals go, the response stays.
Finish(r, response) ==
    Set(r, [req[r] EXCEPT !.pc = "done", !.resp = response, !.ret = None])

\* The facade calling load_model on every request, without the test of
\* line 72.
Receive_AlwaysLoads(r) ==
    /\ phase = "serving"
    /\ req[r].pc = "idle"
    /\ \A q \in Requests : q < r => req[q].pc # "idle"
    /\ \E in \in Inputs :
          Set(r, [req[r] EXCEPT !.pc = "L28", !.ctype = in[1], !.body = in[2],
                                !.sawNone = (model = None)])
    /\ ping' = NoPing
    /\ UNCHANGED <<phase, model, nLoads, nEngines, eagerFailed>>

\* Lines 49-56 and 72: the server hands a POST /invocations to a thread,
\* which enters process_inference_request and tests `model is None`.
\* Threads are numbered in the order the requests arrive.
Receive(r) ==
    /\ phase = "serving"
    /\ req[r].pc = "idle"
    /\ \A q \in Requests : q < r => req[q].pc # "idle"
    /\ \E in \in Inputs :
          IF model = None
          THEN Set(r, [req[r] EXCEPT !.pc = "L28", !.ctype = in[1], !.body = in[2],
                                     !.sawNone = TRUE])
          ELSE Set(r, [req[r] EXCEPT !.pc = "L81", !.ctype = in[1], !.body = in[2]])
    /\ ping' = NoPing
    /\ UNCHANGED <<phase, model, nLoads, nEngines, eagerFailed>>

\* Line 28 inside load_model: if model is not None; otherwise the
\* construction at line 34 starts.
LoadModelCheck(r) ==
    /\ req[r].pc = "L28"
    /\ IF model # None
       THEN /\ Set(r, [req[r] EXCEPT !.pc = "L29"])
            /\ UNCHANGED nLoads
       ELSE /\ Set(r, [req[r] EXCEPT !.pc = "L34"])
            /\ nLoads' = nLoads + 1
    /\ ping' = NoPing
    /\ UNCHANGED <<phase, model, nEngines, eagerFailed>>

\* Line 29: return model (the fast path).
LoadModelFastReturn(r) ==
    /\ req[r].pc = "L29"
    /\ Set(r, [req[r] EXCEPT !.pc = "L74", !.ret = model])
    /\ ping' = NoPing
    /\ UNCHANGED <<phase, model, nLoads, nEngines, eagerFailed>>

\* Line 34: TransformerModel() returns and the global is assigned.
ConstructOk(r) ==
    /\ req[r].pc = "L34"
    /\ model' = nEngines + 1
    /\ nEngines' = nEngines + 1
    /\ Set(r, [req[r] EXCEPT !.pc = "L36", !.loadRes = "ok", !.wrote = TRUE])
    /\ ping' = NoPing
    /\ UNCHANGED <<phase, nLoads, eagerFailed>>

\* The handler of lines 75-78 without its return: the request goes on to
\* line 81 with the reference unset.
ConstructFail_NoReturn(r) ==
    /\ req[r].pc = "L34"
    /\ Set(r, [req[r] EXCEPT !.pc = "L81", !.loadRes = "fail"])
    /\ ping' = NoPing
    /\ UNCHANGED <<phase, model, nLoads, nEngines, eagerFailed>>

\* The global assigned before the constructor is known to have succeeded:
\* a failed load leaves a reference behind.
ConstructFail_Assigns(r) ==
    /\ req[r].pc = "L34"
    /\ model' = nEngines + 1
    /\ nEngines' = nEngines + 1
    /\ Set(r, [req[r] EXCEPT !.pc = "done", !.resp = LoadFailed500, !.loadRes = "fail"])
    /\ ping' = NoPing
    /\ UNCHANGED <<phase, nLoads, eagerFailed>>

\* Line 34 raises: lines 37-40 log and re-raise, lines 75-78 answer 500.
ConstructFail(r) ==
    /\ req[r].pc = "L34"
    /\ Set(r, [req[r] EXCEPT !.pc = "done", !.resp = LoadFailed500, !.loadRes = "fail"])
    /\ ping' = NoPing
    /\ UNCHANGED <<phase, model, nLoads, nEngines, eagerFailed>>

\* Line 36: return model reads the global again.
LoadModelReturn(r) ==
    /\ req[r].pc = "L36"
    /\ Set(r, [req[r] EXCEPT !.pc = "L74", !.ret = model])
    /\ ping' = NoPing
    /\ UNCHANGED <<phase, model, nLoads, nEngines, eagerFailed>>

\* Line 74: model = load_model().
AssignModel(r) ==
    /\ req[r].pc = "L74"
    /\ model' = req[r].ret
    /\ Set(r, [req[r] EXCEPT !.pc = "L81", !.ret = None, !.wrote = TRUE])
    /\ ping' = NoPing
    /\ UNCHANGED <<phase, nLoads, nEngines, eagerFailed>>

\* Lines 81-97 under the handler of lines 105-108, all local to the
\* thread: the content-type check, then parse, data.get('text'), the log
\* line that slices text, and the `not text` check.
Validate(r) ==
    /\ req[r].pc = "L81"
    /\ LET body == req[r].body
           data == ParseJson(body)
       IN  IF RejectedContentType(req[r].ctype) THEN Finish(r, NotJson400)
           ELSE IF ~Parses(body) THEN Finish(r, Prediction500("BadRequest"))
           ELSE IF ~HasGet(data) THEN Finish(r, Prediction500("AttributeError"))
           ELSE IF ~Sliceable(data.text) THEN Finish(r, Prediction500("TypeError"))
           ELSE IF ~Truthy(data.text) THEN Finish(r, MissingText400)
           ELSE Set(r, [req[r] EXCEPT !.pc = "L101"])
    /\ ping' = NoPing
    /\ UNCHANGED <<phase, model, nLoads, nEngines, eagerFailed>>

\* Line 101: model.predict(text) looks the global up and enters predict;
\* on None the attribute lookup raises.
CallPredict(r) ==
    /\ req[r].pc = "L101"
    /\ IF model = None
       THEN Finish(r, Prediction500("AttributeError"))
       ELSE Set(r, [req[r] EXCEPT !.pc = "predict", !.invoked = TRUE])
    /\ ping' = NoPing
    /\ UNCHANGED <<phase, model, nLoads, nEngines, eagerFailed>>

\* model.py lines 28-60 return; main.py lines 102-103 answer 200.
PredictReturn(r) ==
    /\ req[r].pc = "predict"
    /\ Set(r, [req[r] EXCEPT !.pc = "done", !.resp = Ok200])
    /\ ping' = NoPing
    /\ UNCHANGED <<phase, model, nLoads, nEngines, eagerFailed>>

\* predict called outside the try block: the exception reaches the
\* framework, which answers with its own HTML error page.
PredictRaise_Uncaught(r) ==
    /\ req[r].pc = "predict"
    /\ Finish(r, [status |-> 500, key |-> "", msg |-> "Internal Server Error"])
    /\ ping' = NoPing
    /\ UNCHANGED <<phase, model, nLoads, nEngines, eagerFailed>>

\* Tokenization or the forward pass raises; lines 105-108 answer 500.
PredictRaise(r) ==
    /\ req[r].pc = "predict"
    /\ Finish(r, Prediction500("RuntimeError"))
    /\ ping' = NoPing
    /\ UNCHANGED <<phase, model, nLoads, nEngines, eagerFailed>>

Next ==
    \/ EagerLoad
    \/ ScriptMain
    \/ HealthCheck
    \/ \E r \in Requests : Receive(r)
    \/ \E r \in Requests : LoadModelCheck(r)
    \/ \E r \in Requests : LoadModelFastReturn(r)
    \/ \E r \in Requests : ConstructOk(r)
    \/ \E r \in Requests : ConstructFail(r)
    \/ \E r \in Requests : LoadModelReturn(r)
    \/ \E r \in Requests : AssignModel(r)
    \/ \E r \in Requests : Validate(r)
    \/ \E r \in Requests : CallPredict(r)
    \/ \E r \in Requests : PredictReturn(r)
    \/ \E r \in Requests : PredictRaise(r)

Spec == Init /\ [][Next]_vars

----------------------------------------------------------------------------
\* Properties of the facade.

Done(r) == req[r].pc = "done"
InFlight(r) == req[r].pc \notin {"idle", "done"}
Attempted(r) == req[r].pc = "L34" \/ req[r].loadRes # "none"
JsonWith(r, body) == req[r].ctype = CT_JSON /\ req[r].body = body

\* One step of request r.
Step(r) ==
    \/ Receive(r) \/ LoadModelCheck(r) \/ LoadModelFastReturn(r)
    \/ ConstructOk(r) \/ ConstructFail(r) \/ LoadModelReturn(r)
    \/ AssignModel(r) \/ Validate(r) \/ CallPredict(r)
    \/ PredictReturn(r) \/ PredictRaise(r)

\* C1: of two requests in flight at the same time that both found the
\* reference unset at line 72 (concurrent cold-start callers), at most one
\* constructs a TransformerModel.
C1_SingleColdStartLoad ==
    \A r1, r2 \in Requests :
        (/\ r1 # r2
         /\ InFlight(r1) /\ InFlight(r2)
         /\ req[r1].sawNone /\ req[r2].sawNone)
        => ~(Attempted(r1) /\ Attempted(r2))

\* C2: a finished JSON request whose body has no `text` field was answered
\* 400 with an error envelope, and predict was not invoked.
C2_MissingTextIs400 ==
    \A r \in Requests :
        (Done(r) /\ JsonWith(r, B_MISSING))
        => /\ req[r].resp.status = 400
           /\ req[r].resp.key = "error"
           /\ ~req[r].invoked

C5_PingAlways200NoLoad ==
    /\ [](phase = "serving" => ENABLED HealthCheck)
    /\ [][ping' # NoPing =>
            /\ ping'.status = 200 /\ ping'.body = ""
            /\ ping'.at = EngineState
            /\ UNCHANGED <<phase, model, nLoads, nEngines, req>>]_vars

C5_Witness ==
    /\ ping.status = 200
    /\ ping.at = "loading"
    /\ eagerFailed

\* C6: once the reference holds an engine, no step assigns it another
\* value or completes another construction.
C6_ReadyNeverSwapped ==
    [][model # None => (model' = model /\ nEngines' = nEngines)]_vars

\* C7: every finished request carries 200 with a result envelope or 400 or
\* 500 with an error envelope; a request in flight can always take its
\* next step and the serving process keeps serving; the step that answers
\* an inference failure finds the reference set and leaves it as it was.
C7_NoFailureEscapes ==
    /\ [](\A r \in Requests :
            /\ Done(r) =>
                  \/ req[r].resp.status = 200 /\ req[r].resp.key = "result"
                  \/ req[r].resp.status \in {400, 500} /\ req[r].resp.key = "error"
            /\ InFlight(r) => ENABLED Step(r))
    /\ [][phase = "serving" => phase' = "serving"]_vars
    /\ [][\A r \in Requests :
            (req[r].pc = "predict" /\ req'[r].resp.status = 500) =>
                model # None /\ model' = model]_vars

C7_Witness ==
    \E r1, r2 \in Requests :
        /\ r1 < r2
        /\ Done(r1) /\ req[r1].resp = Prediction500("RuntimeError")
        /\ Done(r2) /\ req[r2].resp = Ok200
        /\ model # None

C10_PredictOnlyOnEngine ==
    /\ [](\A r \in Requests :
            /\ req[r].pc \in {"L101", "predict"} =>
                  /\ model # None
                  /\ IsJson(req[r].ctype) /\ Parses(req[r].body)
                  /\ Truthy(ParseJson(req[r].body).text)
            /\ req[r].invoked =>
                  /\ JsonWith(r, B_GREAT)
                  /\ req[r].pc \in {"predict", "done"}
            /\ req[r].resp.status = 200 => Done(r) /\ req[r].invoked)
    /\ [][\A r \in Requests :
            (req'[r].resp.status = 200 /\ req[r].resp.status # 200) =>
                req[r].pc = "predict" /\ model # None]_vars
    /\ [][model # None => model' # None]_vars

C10_Witness ==
    \E r1, r2 \in Requests :
        /\ req[r1].pc = "predict" /\ req[r1].sawNone
        /\ Done(r2) /\ req[r2].resp = Ok200
        /\ nEngines > 1

====
